---- MODULE Spec2Model ----
\* A model of llama/tokenizer.py: the Tokenizer wrapper around a
\* SentencePieceProcessor (construction, encode, decode).
\*
\* The SentencePieceProcessor is a third-party object; it is modelled as a
\* handle (a record) that reports a vocabulary size and four reserved ids and
\* that maps each text to the outcome of its native encode: a list of raw ids
\* or a raised exception.  The wrapper's own logic (the isinstance assert, the
\* try/except, the clamp, the BOS/EOS handling, the attribute lookups on self)
\* is translated statement by statement.
\*
\* What a call hands its caller is an outcome: Return(v), or Raise(exc, msg,
\* context), where msg is what the message interpolates ("" when nothing) and
\* context is the exception that was being handled when exc was raised
\* (Python's __context__; "none" when there was none).
EXTENDS Integers, Sequences, FiniteSets, TLC

\* ---------------------------------------------------------------- bounds
MaxVocab == 2
MaxRawLen == 2
MaxDecLen == 1

\* ---------------------------------------------------------------- values
Return(v) == [kind |-> "return", value |-> v]
Raise(exc, msg, context) == [kind |-> "raise", exc |-> exc, msg |-> msg, context |-> context]

Str(v) == [type |-> "str", val |-> v]
NonStr == [type |-> "int", val |-> "5"]

\* isinstance(s, str)
IsStr(s) == s.type = "str"

Texts == {"", "hi"}
EncodeArgs == {Str(x) : x \in Texts} \cup {NonStr}

SeqsUpTo(S, n) == UNION {[1..k -> S] : k \in 0..n}

\* The ids a model may hand back for a piece: one below the range, the last
\* one inside it, and one past it.
RawIds(n) == {-1, n - 1, n}

\* ------------------------------------------------- the SentencePiece model
\* What the native encode of a model may do with the non-empty text: return
\* any short list of raw ids, or raise.
RawOutcomes(n) ==
    {Return(q) : q \in SeqsUpTo(RawIds(n), MaxRawLen)} \cup {Raise("RuntimeError", "", "none")}

\* The model files that can be on disk.  A reserved id a model does not
\* define is reported as -1 (bos, eos, pad); the unknown id is always defined.
Models ==
    UNION {
        { [vocab_size |-> n, bos_id |-> b, eos_id |-> e, pad_id |-> p, unk_id |-> u,
           pieces |-> [x \in Texts |-> IF x = "" THEN Return(<< >>) ELSE r]] :
            b \in {-1, 0, n - 1}, e \in {-1, 0, n - 1}, p \in {-1, 0},
            u \in {0, n - 1}, r \in RawOutcomes(n) }
        : n \in 1..MaxVocab }

\* sp_model.encode(s)
SpEncode(m, s) == m.pieces[s.val]

\* sp_model.decode(t): the text of the pieces, or IndexError for an id that
\* is no piece of the model.
SpDecode(m, ids) ==
    IF \A i \in 1..Len(ids) : ids[i] \in 0..(m.vocab_size - 1)
    THEN Return([type |-> "str", pieces |-> ids])
    ELSE Raise("IndexError", "", "none")

\* The lists decode is called with: ids below every vocabulary, inside every
\* vocabulary, and inside the largest only.
DecodeArgs == SeqsUpTo({-1, 0, MaxVocab - 1}, MaxDecLen)

\* ------------------------------------------------------------ file system
Paths == {"tokenizer.model", "models", "missing.model"}

\* os.path.isfile(model_path)
IsFile(d, path) == d[path].kind = "file"

\* --------------------------------------------------------------- instance
\* self is the function from the names of the attributes that have been
\* assigned to their values.
NoAttrs == [a \in {} |-> 0]
HasAttr(self, a) == a \in DOMAIN self

VARIABLES disk, status, tok, last, pc, args, t, ret

vars == <<disk, status, tok, last, pc, args, t, ret>>

Callers == {"c1", "c2"}

\* Mutant: the isfile check is missing, so the load itself meets the bad path.
TokenizerInitNoCheck(d, model_path) ==
    IF model_path = "None"
    THEN [self |-> NoAttrs, outcome |-> Return("None"), loaded |-> FALSE]
    ELSE IF ~IsFile(d, model_path)
    THEN [self |-> NoAttrs, outcome |-> Raise("OSError", model_path, "none"), loaded |-> TRUE]
    ELSE LET m == d[model_path].model IN
         [self |-> [sp_model |-> m, n_words |-> m.vocab_size, bos_id |-> m.bos_id,
                    eos_id |-> m.eos_id, pad_id |-> m.pad_id, unk_id |-> m.unk_id],
          outcome |-> Return("None"), loaded |-> TRUE]

\* ------------------------------------------------------------ constructor
\* Tokenizer.__init__(model_path): the attributes self ends with, the
\* outcome, and whether SentencePieceProcessor(model_file=...) was invoked.
TokenizerInit(d, model_path) ==
    IF model_path = "None"
    THEN [self |-> NoAttrs, outcome |-> Return("None"), loaded |-> FALSE]
    ELSE IF ~IsFile(d, model_path)
    THEN [self |-> NoAttrs, outcome |-> Raise("FileNotFoundError", model_path, "none"),
          loaded |-> FALSE]
    ELSE LET m == d[model_path].model IN
         [self |-> [sp_model |-> m, n_words |-> m.vocab_size, bos_id |-> m.bos_id,
                    eos_id |-> m.eos_id, pad_id |-> m.pad_id, unk_id |-> m.unk_id],
          outcome |-> Return("None"), loaded |-> TRUE]

\* Mutant: the upper end of the range is included.
InRangeInclusive(id, n_words) == 0 <= id /\ id <= n_words

\* ----------------------------------------------------------------- encode
\* token_id in range(self.n_words)
InRange(id, n_words) == 0 <= id /\ id < n_words

\* [token_id if token_id in range(self.n_words) else self.unk_id for token_id in t]
Clamp(self, raw) ==
    [i \in 1..Len(raw) |-> IF InRange(raw[i], self.n_words) THEN raw[i] ELSE self.unk_id]

\* Mutant: the BOS id is added at the wrong end.
PrependBosAtEnd(self, ids, bos) == IF bos THEN ids \o <<self.bos_id>> ELSE ids

\* if bos: t = [self.bos_id] + t
PrependBos(self, ids, bos) == IF bos THEN <<self.bos_id>> \o ids ELSE ids

\* if eos: t = t + [self.eos_id]
AppendEos(self, ids, eos) == IF eos THEN ids \o <<self.eos_id>> ELSE ids

\* Mutant: no try/except around the model's encode.
TryEncodeNoWrap(self, s) ==
    IF ~HasAttr(self, "sp_model")
    THEN [outcome |-> Raise("AttributeError", "", "none"), called |-> FALSE]
    ELSE [outcome |-> SpEncode(self.sp_model, s), called |-> TRUE]

\* try: t = self.sp_model.encode(s)  except Exception as e: raise ValueError(...)
\* The lookup of self.sp_model is inside the try: on an instance without the
\* attribute the AttributeError is caught and wrapped like any other.
TryEncode(self, s) ==
    IF ~HasAttr(self, "sp_model")
    THEN [outcome |-> Raise("ValueError", "AttributeError", "AttributeError"), called |-> FALSE]
    ELSE LET r == SpEncode(self.sp_model, s) IN
         [outcome |-> IF r.kind = "raise" THEN Raise("ValueError", r.exc, r.exc) ELSE r,
          called |-> TRUE]

\* Mutant: the type of s is checked only after the model was handed s.
EncodeLateAssert(self, s, bos, eos) ==
    IF ~IsStr(s)
    THEN [outcome |-> Raise("AssertionError", "", "none"), called |-> HasAttr(self, "sp_model")]
    ELSE LET r == TryEncode(self, s) IN
         IF r.outcome.kind = "raise"
         THEN r
         ELSE [outcome |->
                  Return(AppendEos(self, PrependBos(self, Clamp(self, r.outcome.value), bos), eos)),
               called |-> TRUE]

\* Tokenizer.encode(s, bos, eos): the outcome, and whether the model's
\* encode was invoked.
Encode(self, s, bos, eos) ==
    IF ~IsStr(s)
    THEN [outcome |-> Raise("AssertionError", "", "none"), called |-> FALSE]
    ELSE LET r == TryEncode(self, s) IN
         IF r.outcome.kind = "raise"
         THEN r
         ELSE [outcome |->
                  Return(AppendEos(self, PrependBos(self, Clamp(self, r.outcome.value), bos), eos)),
               called |-> TRUE]

\* Mutant: decode wraps the model's errors the way encode does.
DecodeWrapped(self, ids) ==
    IF ~HasAttr(self, "sp_model")
    THEN Raise("ValueError", "AttributeError", "AttributeError")
    ELSE LET r == SpDecode(self.sp_model, ids) IN
         IF r.kind = "raise" THEN Raise("ValueError", r.exc, r.exc) ELSE r

\* ----------------------------------------------------------------- decode
\* Tokenizer.decode(t)
Decode(self, ids) ==
    IF ~HasAttr(self, "sp_model")
    THEN Raise("AttributeError", "", "none")
    ELSE SpDecode(self.sp_model, ids)

\* ------------------------------------------------------------------- Init
NoCall == [op |-> "none"]

Disks ==
    { [p \in Paths |->
          IF p = "tokenizer.model" THEN [kind |-> "file", model |-> m]
          ELSE IF p = "models" THEN [kind |-> "dir"]
          ELSE [kind |-> "absent"]] : m \in Models }

Init ==
    /\ disk \in Disks
    /\ status = "NoInstance"
    /\ tok = NoAttrs
    /\ last = NoCall
    /\ pc = [c \in Callers |-> "idle"]
    /\ args = [c \in Callers |-> NoCall]
    /\ t = [c \in Callers |-> << >>]
    /\ ret = [c \in Callers |-> NoCall]

\* ---------------------------------------------------------------- actions
\* Tokenizer(model_path).  A constructor that raises yields no instance.
Construct(model_path) ==
    /\ status = "NoInstance"
    /\ LET r == TokenizerInit(disk, model_path) IN
       /\ tok' = r.self
       /\ status' = IF r.outcome.kind = "raise" THEN "NoInstance"
                    ELSE IF model_path = "None" THEN "Uninitialized" ELSE "Ready"
       /\ last' = [op |-> "construct", path |-> model_path, outcome |-> r.outcome,
                   loaded |-> r.loaded]
    /\ UNCHANGED <<disk, pc, args, t, ret>>

HasInstance == status \in {"Uninitialized", "Ready"}

\* Mutant: a failing encode drops the loaded model from the instance.
encode_reset_on_error(s, bos, eos) ==
    /\ HasInstance
    /\ LET r == Encode(tok, s, bos, eos) IN
       /\ last' = [op |-> "encode", s |-> s, bos |-> bos, eos |-> eos,
                   outcome |-> r.outcome, called |-> r.called]
       /\ tok' = IF r.outcome.kind = "raise" THEN NoAttrs ELSE tok
       /\ status' = IF r.outcome.kind = "raise" THEN "Uninitialized" ELSE status
    /\ UNCHANGED <<disk, pc, args, t, ret>>

\* tokenizer.encode(s, bos, eos), run to completion
encode(s, bos, eos) ==
    /\ HasInstance
    /\ LET r == Encode(tok, s, bos, eos) IN
       last' = [op |-> "encode", s |-> s, bos |-> bos, eos |-> eos,
                outcome |-> r.outcome, called |-> r.called]
    /\ UNCHANGED <<disk, status, tok, pc, args, t, ret>>

\* tokenizer.decode(t), run to completion
decode(ids) ==
    /\ HasInstance
    /\ last' = [op |-> "decode", t |-> ids, outcome |-> Decode(tok, ids)]
    /\ UNCHANGED <<disk, status, tok, pc, args, t, ret>>

Next ==
    \/ \E p \in Paths \cup {"None"} : Construct(p)
    \/ \E s \in EncodeArgs, bos \in BOOLEAN, eos \in BOOLEAN : encode(s, bos, eos)
    \/ \E ids \in DecodeArgs : decode(ids)

Spec == Init /\ [][Next]_vars

\* ------------------------------------------------- concurrent callers
\* The same instance shared by the threads in Callers.  A call is split where
\* the interpreter can switch threads between two reads of self; s, bos, eos
\* and t are locals of the call's frame (args[c], t[c]), and ret[c] is what
\* the call hands back to its caller.

\* encode entered: assert isinstance(s, str)
call_encode(c, s, bos, eos) ==
    /\ HasInstance
    /\ pc[c] = "idle"
    /\ args' = [args EXCEPT ![c] = [op |-> "encode", s |-> s, bos |-> bos, eos |-> eos]]
    /\ IF IsStr(s)
       THEN /\ pc' = [pc EXCEPT ![c] = "enc_model"]
            /\ ret' = ret
       ELSE /\ pc' = [pc EXCEPT ![c] = "done"]
            /\ ret' = [ret EXCEPT ![c] = Raise("AssertionError", "", "none")]
    /\ UNCHANGED <<disk, status, tok, last, t>>

\* Mutant: t is one buffer shared by every call on the instance, not a local.
enc_model_shared_t(c) ==
    /\ pc[c] = "enc_model"
    /\ LET r == TryEncode(tok, args[c].s) IN
       IF r.outcome.kind = "raise"
       THEN /\ pc' = [pc EXCEPT ![c] = "done"]
            /\ ret' = [ret EXCEPT ![c] = r.outcome]
            /\ t' = t
       ELSE /\ pc' = [pc EXCEPT ![c] = "enc_clamp"]
            /\ t' = [x \in Callers |-> r.outcome.value]
            /\ ret' = ret
    /\ UNCHANGED <<disk, status, tok, last, args>>

\* try: t = self.sp_model.encode(s) except Exception as e: raise ValueError
enc_model(c) ==
    /\ pc[c] = "enc_model"
    /\ LET r == TryEncode(tok, args[c].s) IN
       IF r.outcome.kind = "raise"
       THEN /\ pc' = [pc EXCEPT ![c] = "done"]
            /\ ret' = [ret EXCEPT ![c] = r.outcome]
            /\ t' = t
       ELSE /\ pc' = [pc EXCEPT ![c] = "enc_clamp"]
            /\ t' = [t EXCEPT ![c] = r.outcome.value]
            /\ ret' = ret
    /\ UNCHANGED <<disk, status, tok, last, args>>

\* t = [token_id if token_id in range(self.n_words) else self.unk_id ...]
enc_clamp(c) ==
    /\ pc[c] = "enc_clamp"
    /\ t' = [t EXCEPT ![c] = Clamp(tok, t[c])]
    /\ pc' = [pc EXCEPT ![c] = "enc_bos"]
    /\ UNCHANGED <<disk, status, tok, last, args, ret>>

\* if bos: t = [self.bos_id] + t
enc_bos(c) ==
    /\ pc[c] = "enc_bos"
    /\ t' = [t EXCEPT ![c] = PrependBos(tok, t[c], args[c].bos)]
    /\ pc' = [pc EXCEPT ![c] = "enc_eos"]
    /\ UNCHANGED <<disk, status, tok, last, args, ret>>

\* if eos: t = t + [self.eos_id]; return t
enc_eos(c) ==
    /\ pc[c] = "enc_eos"
    /\ ret' = [ret EXCEPT ![c] = Return(AppendEos(tok, t[c], args[c].eos))]
    /\ t' = [t EXCEPT ![c] = << >>]
    /\ pc' = [pc EXCEPT ![c] = "done"]
    /\ UNCHANGED <<disk, status, tok, last, args>>

\* decode entered
call_decode(c, ids) ==
    /\ HasInstance
    /\ pc[c] = "idle"
    /\ args' = [args EXCEPT ![c] = [op |-> "decode", t |-> ids]]
    /\ pc' = [pc EXCEPT ![c] = "dec_model"]
    /\ UNCHANGED <<disk, status, tok, last, t, ret>>

\* return self.sp_model.decode(t)
dec_model(c) ==
    /\ pc[c] = "dec_model"
    /\ ret' = [ret EXCEPT ![c] = Decode(tok, args[c].t)]
    /\ pc' = [pc EXCEPT ![c] = "done"]
    /\ UNCHANGED <<disk, status, tok, last, args, t>>

\* the caller takes the result and is free to call again
finish(c) ==
    /\ pc[c] = "done"
    /\ pc' = [pc EXCEPT ![c] = "idle"]
    /\ args' = [args EXCEPT ![c] = NoCall]
    /\ ret' = [ret EXCEPT ![c] = NoCall]
    /\ UNCHANGED <<disk, status, tok, last, t>>

\* The models the concurrent specification loads: the largest vocabulary,
\* with and without a BOS id, a native encode that returns an in-range and an
\* out-of-range id or that raises.
ConcModels ==
    { m \in Models :
        /\ m.vocab_size = MaxVocab
        /\ m.bos_id \in {-1, 0}
        /\ m.eos_id = MaxVocab - 1
        /\ m.pad_id = -1
        /\ m.unk_id = 0
        /\ m.pieces["hi"] \in {Return(<<MaxVocab - 1, MaxVocab>>), Raise("RuntimeError", "", "none")} }

InitConc ==
    /\ Init
    /\ disk["tokenizer.model"].model \in ConcModels

\* Construction does not race with the calls: it happens before any of them.
NextConc ==
    \/ \E p \in {"tokenizer.model", "None"} : Construct(p)
    \/ \E c \in Callers :
          \/ \E s \in EncodeArgs, bos \in BOOLEAN, eos \in BOOLEAN : call_encode(c, s, bos, eos)
          \/ enc_model(c)
          \/ enc_clamp(c)
          \/ enc_bos(c)
          \/ enc_eos(c)
          \/ \E ids \in DecodeArgs : call_decode(c, ids)
          \/ dec_model(c)
          \/ finish(c)

SpecConc == InitConc /\ [][NextConc]_vars

\* ================================================================ claims
LastEncode == last.op = "encode"
LastReturned == last.outcome.kind = "return"
LoadedModel == disk["tokenizer.model"].model

\* C1: on a Ready Tokenizer every id in the list encode returns lies in
\* [0, vocabulary size), the prepended BOS id and the appended EOS id included.
C1_AllIdsInVocab ==
    (status = "Ready" /\ LastEncode /\ LastReturned)
        => \A i \in 1..Len(last.outcome.value) :
              last.outcome.value[i] \in 0..(tok.n_words - 1)

\* C2: an encode(s, bos, eos) that directly follows an encode(s, false, false)
\* of the same text returns [BOS if bos] + (what that call returned) +
\* [EOS if eos], and raises what that call raised when it raised.
C2_FlagsConcatenate ==
    [][ ( /\ status = "Ready"
          /\ LastEncode /\ ~last.bos /\ ~last.eos
          /\ last'.op = "encode" /\ last'.s = last.s )
        => IF LastReturned
           THEN /\ last'.outcome.kind = "return"
                /\ last'.outcome.value =
                      (IF last'.bos THEN <<tok.bos_id>> ELSE << >>)
                      \o last.outcome.value
                      \o (IF last'.eos THEN <<tok.eos_id>> ELSE << >>)
           ELSE last'.outcome = last.outcome ]_vars

\* a call with both flags set has returned BOS, two ids and EOS
C2_Witness ==
    /\ status = "Ready" /\ LastEncode /\ last.bos /\ last.eos /\ LastReturned
    /\ Len(last.outcome.value) = 4

\* C3: on an instance constructed without a path, encode and decode raise an
\* error that is none of EncodingFailure (ValueError), TypeMismatch
\* (AssertionError) and NotFound (FileNotFoundError).
C3_UninitializedRaisesNotInitialized ==
    (status = "Uninitialized" /\ last.op \in {"encode", "decode"})
        => /\ last.outcome.kind = "raise"
           /\ last.outcome.exc \notin {"ValueError", "AssertionError", "FileNotFoundError"}

\* C4: constructing with a path that is no existing regular file raises
\* FileNotFoundError naming the path, without a load having been attempted,
\* and leaves no attribute set and no instance.
C4_NotFoundNoPartialState ==
    (last.op = "construct" /\ last.path # "None" /\ ~IsFile(disk, last.path))
        => /\ last.outcome = Raise("FileNotFoundError", last.path, "none")
           /\ ~last.loaded
           /\ tok = NoAttrs
           /\ status = "NoInstance"

C4_Witness ==
    /\ last.op = "construct" /\ last.path = "missing.model"
    /\ last.outcome.kind = "raise"

\* C5: encode of a non-text argument raises AssertionError (TypeMismatch)
\* without the model's encode having been invoked, whatever the state of the
\* instance and the flags.
C5_NonTextRejectedFirst ==
    (LastEncode /\ ~IsStr(last.s))
        => /\ last.outcome.kind = "raise"
           /\ last.outcome.exc = "AssertionError"
           /\ ~last.called

C5_Witness ==
    /\ status = "Ready" /\ LastEncode /\ ~IsStr(last.s) /\ last.bos /\ last.eos
    /\ last.outcome.kind = "raise"

\* C6: on a Ready Tokenizer, when the model's encode raises, encode raises
\* ValueError (EncodingFailure) carrying the model's exception, and returns
\* no list.
C6_ModelFailureWrapped ==
    ( /\ status = "Ready" /\ LastEncode /\ IsStr(last.s)
      /\ SpEncode(LoadedModel, last.s).kind = "raise" )
        => /\ last.outcome.kind = "raise"
           /\ last.outcome.exc = "ValueError"
           /\ last.outcome.context = SpEncode(LoadedModel, last.s).exc
           /\ last.outcome.msg = SpEncode(LoadedModel, last.s).exc

C6_Witness ==
    /\ status = "Ready" /\ LastEncode /\ last.called
    /\ last.outcome.kind = "raise" /\ last.outcome.context = "RuntimeError"

\* C7: on a Ready Tokenizer decode hands back exactly what the model's decode
\* does with the same ids: its text, or its own error for an id out of range,
\* not wrapped.
C7_DecodePassThrough ==
    (status = "Ready" /\ last.op = "decode")
        => /\ last.outcome = SpDecode(LoadedModel, last.t)
           /\ (\E i \in 1..Len(last.t) : last.t[i] < 0 \/ last.t[i] >= tok.n_words)
                 => last.outcome = Raise("IndexError", "", "none")

C7_Witness ==
    /\ status = "Ready" /\ last.op = "decode" /\ Len(last.t) > 0
    /\ last.outcome.kind = "raise"

\* C8: once an instance exists it is Uninitialized (no attribute) or Ready
\* (the model and the values it reported at construction), and no step
\* changes its state or any of its attributes.
C8_StateNeverChanges ==
    [][ HasInstance
        => /\ status' = status
           /\ tok' = tok
           /\ (status = "Uninitialized" => tok = NoAttrs)
           /\ (status = "Ready" =>
                  /\ tok.sp_model = LoadedModel
                  /\ tok.n_words = LoadedModel.vocab_size
                  /\ tok.bos_id = LoadedModel.bos_id
                  /\ tok.eos_id = LoadedModel.eos_id
                  /\ tok.pad_id = LoadedModel.pad_id
                  /\ tok.unk_id = LoadedModel.unk_id) ]_vars

\* a Ready instance after an encode that failed inside the model
C8_Witness ==
    /\ status = "Ready" /\ LastEncode /\ last.outcome.kind = "raise" /\ last.called
    /\ HasAttr(tok, "sp_model")

\* C9: under every interleaving of the callers' steps, a call that has
\* finished hands back what the same call returns when run alone.
C9_ConcurrentSameAsAlone ==
    \A c \in Callers :
        pc[c] = "done" =>
            ret[c] = IF args[c].op = "encode"
                     THEN Encode(tok, args[c].s, args[c].bos, args[c].eos).outcome
                     ELSE Decode(tok, args[c].t)

\* one caller has finished an encode while the other is in the middle of one
\* with its own ids in hand
C9_Witness ==
    /\ status = "Ready"
    /\ pc["c1"] = "done" /\ args["c1"].op = "encode" /\ ret["c1"].kind = "return"
    /\ Len(ret["c1"].value) = 1
    /\ pc["c2"] = "enc_eos" /\ Len(t["c2"]) = 3

\* C10: the ids between BOS and EOS are the raw ids position by position, each
\* raw id outside [0, vocabulary size) replaced by the unknown id.
C10_ClampPositionWise ==
    ( /\ status = "Ready" /\ LastEncode /\ IsStr(last.s)
      /\ SpEncode(LoadedModel, last.s).kind = "return" )
        => LET raw == SpEncode(LoadedModel, last.s).value
               off == IF last.bos THEN 1 ELSE 0
               v == last.outcome.value
           IN  /\ LastReturned
               /\ Len(v) = off + Len(raw) + (IF last.eos THEN 1 ELSE 0)
               /\ \A i \in 1..Len(raw) :
                     v[off + i] = IF raw[i] >= 0 /\ raw[i] < tok.n_words
                                  THEN raw[i] ELSE tok.unk_id

\* a raw list with an id below the range and one past its end, both replaced
C10_Witness ==
    /\ status = "Ready" /\ LastEncode /\ IsStr(last.s) /\ LastReturned /\ ~last.bos
    /\ LET raw == SpEncode(LoadedModel, last.s) IN
       /\ raw.kind = "return" /\ Len(raw.value) = 2
       /\ raw.value[1] < 0 /\ raw.value[2] = tok.n_words
       /\ last.outcome.value = <<tok.unk_id, tok.unk_id>>

====
